---- MODULE Spec2Model ----
(***************************************************************************)
(* meal_max: the Meal Store (kitchen_model: one table `meals` with         *)
(* soft-delete and battle statistics) and the Battle Engine (battle_model: *)
(* the transient list `combatants`).  Every operation of the two modules   *)
(* is one atomic action; the exception an operation raises is recorded as  *)
(* the error kind of the last call.                                        *)
(*                                                                         *)
(* Error kinds (all are ValueError in the Python; the message decides):    *)
(*   "... not found"                    -> NotFoundError                   *)
(*   "... has been deleted"             -> AlreadyDeletedError             *)
(*   "... already exists [in the battle]" -> ConflictError                 *)
(*   "Invalid ..." / "Combatant cannot be None" /                          *)
(*   "Not enough combatants for a battle" -> ValidationError               *)
(***************************************************************************)
EXTENDS Integers, Sequences, FiniteSets, TLC

VARIABLES meals, combatants, last

vars == <<meals, combatants, last>>

\* ------------------------------------------------------------------ bounds

\* The battles counters of the table are not driven past this sum.
MaxBattles == 2

\* The table holds at most this many rows.
MaxMeals == 3

\* The combatant list is not grown past this length.
MaxRoster == 3

\* ------------------------------------------------------------------ values

OK == "ok"

ValidationError == "ValidationError"

NotFoundError == "NotFoundError"

AlreadyDeletedError == "AlreadyDeletedError"

ConflictError == "ConflictError"

Difficulties == {"LOW", "MED", "HIGH"}

\* Meal(id, meal, cuisine, price, difficulty): the dataclass.
Meal(id, meal, cuisine, price, difficulty) ==
    [id |-> id, meal |-> meal, cuisine |-> cuisine, price |-> price,
     difficulty |-> difficulty]

\* The arguments create_meal is called with: the valid meals of the tests
\* and the invalid ones (price <= 0, unknown difficulty).
CreateInputs ==
    { [meal |-> "Pasta", cuisine |-> "Italian", price |-> 10, difficulty |-> "MED"],
      [meal |-> "Sushi", cuisine |-> "Japanese", price |-> 15, difficulty |-> "HIGH"],
      [meal |-> "Pizza", cuisine |-> "Italian", price |-> -5, difficulty |-> "LOW"],
      [meal |-> "Pizza", cuisine |-> "Italian", price |-> 0, difficulty |-> "LOW"],
      [meal |-> "Burger", cuisine |-> "American", price |-> 10, difficulty |-> "EXTREME"] }

\* The callers of the Meal Store alone create a third meal as well.
KitchenInputs ==
    CreateInputs \cup
        { [meal |-> "Manti", cuisine |-> "Turkish", price |-> 12, difficulty |-> "MED"] }

\* Names looked up by get_meal_by_name.
LookupNames == {"Pasta", "Sushi", "Pizza"}

\* Names looked up by the callers of the Meal Store alone.
KitchenNames == LookupNames \cup {"Manti"}

\* Ids the callers pass: the first two the table assigns, and one it never assigns.
LookupIds == {1, 2, 999}

\* Ids passed by the callers of the Meal Store alone.
KitchenIds == LookupIds \cup {3}

\* update_meal_stats results.
Results == {"win", "loss", "invalid"}

\* get_leaderboard sort_by values.
SortBys == {"wins", "win_pct", "invalid_sort"}

\* A caller-built Meal whose id the table never assigns.
stray_meal == Meal(999, "Meal 999", "Cuisine 9", 200, "MED")

\* get_random(): the draws, in thousandths of [0, 1).
RandomDraws == {250, 600, 900}

\* ------------------------------------------------------------------ the table

\* The schema's defaults for the columns an INSERT does not name.
NewRow(id, meal, cuisine, price, difficulty) ==
    [id |-> id, meal |-> meal, cuisine |-> cuisine, price |-> price,
     difficulty |-> difficulty, deleted |-> FALSE, battles |-> 0, wins |-> 0]

\* id INTEGER PRIMARY KEY: the next id of a table no row is ever removed from.
NextId(table) == Len(table) + 1

\* meal TEXT UNIQUE: an INSERT of a name some row holds raises IntegrityError.
UniqueViolation(table, meal) ==
    \E i \in 1 .. Len(table) : table[i].meal = meal

\* InsertMeal with the values bound in the wrong order: the cuisine lands in
\* the meal column and the meal in the cuisine column.
InsertMealSwapped(table, meal, cuisine, price, difficulty) ==
    Append(table, NewRow(NextId(table), cuisine, meal, price, difficulty))

\* INSERT INTO meals (meal, cuisine, price, difficulty) VALUES (?, ?, ?, ?)
InsertMeal(table, meal, cuisine, price, difficulty) ==
    Append(table, NewRow(NextId(table), meal, cuisine, price, difficulty))

\* SELECT ... WHERE id = ? ; fetchone(): <<>> for None, else <<row>>.
SelectById(table, id) ==
    LET hits == {i \in 1 .. Len(table) : table[i].id = id}
    IN IF hits = {} THEN <<>> ELSE <<table[CHOOSE i \in hits : TRUE]>>

\* SELECT ... WHERE meal = ? ; fetchone().
SelectByName(table, meal) ==
    LET hits == {i \in 1 .. Len(table) : table[i].meal = meal}
    IN IF hits = {} THEN <<>>
       ELSE <<table[CHOOSE i \in hits : \A j \in hits : i <= j]>>

\* Meal(id=row[0], meal=row[1], cuisine=row[2], price=row[3], difficulty=row[4])
RowToMeal(row) == Meal(row.id, row.meal, row.cuisine, row.price, row.difficulty)

\* UPDATE meals SET deleted = TRUE WHERE id = ?
MarkDeleted(table, id) ==
    [i \in 1 .. Len(table) |->
        IF table[i].id = id THEN [table[i] EXCEPT !.deleted = TRUE] ELSE table[i]]

\* UpdateWin without its WHERE clause: every row gains the battle and the win.
UpdateWinAllRows(table, id) ==
    [i \in 1 .. Len(table) |-> [table[i] EXCEPT !.battles = @ + 1, !.wins = @ + 1]]

\* UpdateWin that counts the win and not the battle.
UpdateWinNoBattle(table, id) ==
    [i \in 1 .. Len(table) |->
        IF table[i].id = id THEN [table[i] EXCEPT !.wins = @ + 1] ELSE table[i]]

\* UPDATE meals SET battles = battles + 1, wins = wins + 1 WHERE id = ?
UpdateWin(table, id) ==
    [i \in 1 .. Len(table) |->
        IF table[i].id = id
        THEN [table[i] EXCEPT !.battles = @ + 1, !.wins = @ + 1]
        ELSE table[i]]

\* UpdateLoss that runs the statement of a win.
UpdateLossAlsoWins(table, id) ==
    [i \in 1 .. Len(table) |->
        IF table[i].id = id
        THEN [table[i] EXCEPT !.battles = @ + 1, !.wins = @ + 1]
        ELSE table[i]]

\* UPDATE meals SET battles = battles + 1 WHERE id = ?
UpdateLoss(table, id) ==
    [i \in 1 .. Len(table) |->
        IF table[i].id = id THEN [table[i] EXCEPT !.battles = @ + 1] ELSE table[i]]

\* The IntegrityError caught and dropped: the caller sees no error.
IntegrityErrorSwallowed == OK

\* except sqlite3.IntegrityError: raise ValueError("Meal with name '...' already exists")
OnIntegrityError == ConflictError

\* A fetched row whose deleted column is true: "... has been deleted".
OnDeletedRow == AlreadyDeletedError

\* fetchone() is None: "... not found".
OnNoRow == NotFoundError

\* ------------------------------------------------------------------ kitchen_model

\* create_meal(meal, cuisine, price, difficulty)
CreateMeal(table, a) ==
    IF a.price <= 0 THEN [err |-> ValidationError, table |-> table, id |-> 0]
    ELSE IF a.difficulty \notin Difficulties
    THEN [err |-> ValidationError, table |-> table, id |-> 0]
    ELSE IF UniqueViolation(table, a.meal)
    THEN [err |-> OnIntegrityError, table |-> table, id |-> 0]
    ELSE [err |-> OK,
          table |-> InsertMeal(table, a.meal, a.cuisine, a.price, a.difficulty),
          id |-> NextId(table)]

\* clear_meals(): the create-table script drops the table and creates it empty.
ClearMeals(table) == <<>>

\* delete_meal(meal_id)
DeleteMeal(table, id) ==
    LET sel == SelectById(table, id)
    IN IF sel = <<>> THEN [err |-> OnNoRow, table |-> table]
       ELSE IF sel[1].deleted THEN [err |-> OnDeletedRow, table |-> table]
       ELSE [err |-> OK, table |-> MarkDeleted(table, id)]

\* get_meal_by_id that does not look at the deleted column.
GetMealByIdIgnoringDeleted(table, id) ==
    LET sel == SelectById(table, id)
    IN IF sel = <<>> THEN [err |-> OnNoRow, out |-> <<>>]
       ELSE [err |-> OK, out |-> <<RowToMeal(sel[1])>>]

\* get_meal_by_id(meal_id)
GetMealById(table, id) ==
    LET sel == SelectById(table, id)
    IN IF sel = <<>> THEN [err |-> OnNoRow, out |-> <<>>]
       ELSE IF sel[1].deleted THEN [err |-> OnDeletedRow, out |-> <<>>]
       ELSE [err |-> OK, out |-> <<RowToMeal(sel[1])>>]

\* get_meal_by_name(meal_name)
GetMealByName(table, meal) ==
    LET sel == SelectByName(table, meal)
    IN IF sel = <<>> THEN [err |-> OnNoRow, out |-> <<>>]
       ELSE IF sel[1].deleted THEN [err |-> OnDeletedRow, out |-> <<>>]
       ELSE [err |-> OK, out |-> <<RowToMeal(sel[1])>>]

\* update_meal_stats(meal_id, result)
UpdateMealStats(table, id, result) ==
    LET sel == SelectById(table, id)
    IN IF sel = <<>> THEN [err |-> OnNoRow, table |-> table]
       ELSE IF sel[1].deleted THEN [err |-> OnDeletedRow, table |-> table]
       ELSE IF result = "win" THEN [err |-> OK, table |-> UpdateWin(table, id)]
       ELSE IF result = "loss" THEN [err |-> OK, table |-> UpdateLoss(table, id)]
       ELSE [err |-> ValidationError, table |-> table]

\* a's sort key is strictly greater than b's.  win_pct = wins / battles, and 0
\* for a row that has fought no battle; the quotients are compared exactly.
KeyGreater(a, b, sort_by) ==
    IF sort_by = "wins" THEN a.wins > b.wins
    ELSE IF a.battles = 0 THEN FALSE
    ELSE IF b.battles = 0 THEN a.wins > 0
    ELSE a.wins * b.battles > b.wins * a.battles

\* ORDER BY <sort_by> DESC: x goes behind every row whose key is not smaller.
RECURSIVE InsertDesc(_, _, _)
InsertDesc(x, sorted, sort_by) ==
    IF sorted = <<>> THEN <<x>>
    ELSE IF KeyGreater(x, Head(sorted), sort_by) THEN <<x>> \o sorted
    ELSE <<Head(sorted)>> \o InsertDesc(x, Tail(sorted), sort_by)

RECURSIVE OrderByDesc(_, _)
OrderByDesc(rows, sort_by) ==
    IF rows = <<>> THEN <<>>
    ELSE InsertDesc(rows[Len(rows)], OrderByDesc(SubSeq(rows, 1, Len(rows) - 1), sort_by),
                    sort_by)

\* WHERE deleted = false
RECURSIVE NotDeleted(_)
NotDeleted(rows) ==
    IF rows = <<>> THEN <<>>
    ELSE IF Head(rows).deleted THEN NotDeleted(Tail(rows))
    ELSE <<Head(rows)>> \o NotDeleted(Tail(rows))

\* win_pct in tenths of a percent: round(wins / battles * 100, 1).
WinPct(row) ==
    IF row.battles = 0 THEN 0
    ELSE (2000 * row.wins + row.battles) \div (2 * row.battles)

\* One leaderboard entry: the fetched row as a dictionary.
LeaderboardEntry(row) ==
    [id |-> row.id, meal |-> row.meal, cuisine |-> row.cuisine, price |-> row.price,
     difficulty |-> row.difficulty, battles |-> row.battles, wins |-> row.wins,
     win_pct |-> WinPct(row)]

\* Every sort_by is taken (an unknown one sorts by wins).
AnySortBy(sort_by) == TRUE

\* sort_by is one of the two keys the leaderboard knows.
ValidSortBy(sort_by) == sort_by \in {"wins", "win_pct"}

\* get_leaderboard(sort_by)
GetLeaderboard(table, sort_by) ==
    IF ~ValidSortBy(sort_by) THEN [err |-> ValidationError, out |-> <<>>]
    ELSE LET rows == OrderByDesc(NotDeleted(table),
                                 IF sort_by = "win_pct" THEN "win_pct" ELSE "wins")
         IN [err |-> OK, out |-> [i \in 1 .. Len(rows) |-> LeaderboardEntry(rows[i])]]

\* ------------------------------------------------------------------ battle_model

\* difficulty_modifier = {"HIGH": 1, "MED": 2, "LOW": 3}
DifficultyModifier(difficulty) ==
    IF difficulty = "HIGH" THEN 1 ELSE IF difficulty = "MED" THEN 2 ELSE 3

\* get_battle_score(combatant), combatant given as <<>> (None) or <<meal>>.
GetBattleScore(c) ==
    IF c = <<>> THEN [err |-> ValidationError, out |-> <<>>]
    ELSE [err |-> OK,
          out |-> <<c[1].price * Len(c[1].cuisine) - DifficultyModifier(c[1].difficulty)>>]

\* The duplicate looked for by equality of the whole record ("combatant in
\* self.combatants") instead of by id.
AlreadyInBattleSameRecord(roster, m) ==
    \E i \in 1 .. Len(roster) : roster[i] = m

\* A meal with the combatant's id is already in the list.
AlreadyInBattle(roster, m) ==
    \E i \in 1 .. Len(roster) : roster[i].id = m.id

\* prep_combatant(combatant_data)
PrepCombatant(roster, c) ==
    IF c = <<>> THEN [err |-> ValidationError, roster |-> roster]
    ELSE IF AlreadyInBattle(roster, c[1]) THEN [err |-> ConflictError, roster |-> roster]
    ELSE [err |-> OK, roster |-> Append(roster, c[1])]

\* clear_combatants()
ClearCombatants(roster) == <<>>

\* get_combatants()
GetCombatants(roster) == roster

\* list.remove(x): the first element equal to x goes.
RECURSIVE ListRemove(_, _)
ListRemove(roster, x) ==
    IF roster = <<>> THEN <<>>
    ELSE IF Head(roster) = x THEN Tail(roster)
    ELSE <<Head(roster)>> \o ListRemove(Tail(roster), x)

\* The length compared as "fewer than two": three combatants pass.
AtLeastTwoCombatants(roster) == Len(roster) >= 2

\* The list holds the two combatants a battle needs.
EnoughCombatants(roster) == Len(roster) = 2

\* delta / (score_a + score_b) clamped into [0, 1], in thousandths.
Normalized(score_a, score_b) ==
    LET delta == IF score_a >= score_b THEN score_a - score_b ELSE score_b - score_a
        total == score_a + score_b
    IN IF total <= 0 THEN 1000
       ELSE IF (1000 * delta) \div total > 1000 THEN 1000
       ELSE (1000 * delta) \div total

\* 1 / (1 + e^(-n)) in thousandths, for n in [0, 1] given in thousandths:
\* 1/2 + n/4 - n^3/48 (the series of the logistic function, within 0.003).
Threshold(n) == 500 + (n \div 4) - ((n * n * n) \div 48000000)

\* battle() with the random draw r.  The higher score is meal A (a tie: the
\* first of the list); A wins if r < threshold.  The statistics of the winner
\* are updated first, then the loser's; an exception of either update leaves
\* the battle at that point.
Battle(table, roster, r) ==
    IF ~EnoughCombatants(roster)
    THEN [err |-> ValidationError, table |-> table, roster |-> roster, out |-> <<>>]
    ELSE LET score_1 == GetBattleScore(<<roster[1]>>).out[1]
             score_2 == GetBattleScore(<<roster[2]>>).out[1]
             a == IF score_2 > score_1 THEN roster[2] ELSE roster[1]
             b == IF score_2 > score_1 THEN roster[1] ELSE roster[2]
             winner == IF r < Threshold(Normalized(score_1, score_2)) THEN a ELSE b
             loser == IF winner = a THEN b ELSE a
             won == UpdateMealStats(table, winner.id, "win")
             lost == UpdateMealStats(won.table, loser.id, "loss")
         IN IF won.err # OK
            THEN [err |-> won.err, table |-> table, roster |-> roster, out |-> <<>>]
            ELSE IF lost.err # OK
            THEN [err |-> lost.err, table |-> won.table, roster |-> roster, out |-> <<>>]
            ELSE [err |-> OK, table |-> lost.table, roster |-> ListRemove(roster, loser),
                  out |-> <<winner>>]

\* ------------------------------------------------------------------ the system

\* The record of the last call: its name and the error kind it raised (OK: none).
Call(op, err) == [op |-> op, err |-> err]

\* The battles counters of the table sum to this.
RECURSIVE TotalBattles(_)
TotalBattles(table) ==
    IF table = <<>> THEN 0 ELSE Head(table).battles + TotalBattles(Tail(table))

\* The meals a caller can hand to the Battle Engine: None, a meal read from
\* the store, or a Meal of its own making.
PrepInputs ==
    {<<>>, <<stray_meal>>} \cup {GetMealById(meals, id).out : id \in LookupIds}

Init ==
    /\ meals = <<>>
    /\ combatants = <<>>
    /\ last = Call("init", OK)

create_meal(a) ==
    LET r == CreateMeal(meals, a)
    IN /\ Len(r.table) <= MaxMeals
       /\ meals' = r.table
       /\ last' = Call("create_meal", r.err)
       /\ UNCHANGED combatants

clear_meals ==
    /\ meals' = ClearMeals(meals)
    /\ last' = Call("clear_meals", OK)
    /\ UNCHANGED combatants

delete_meal(id) ==
    LET r == DeleteMeal(meals, id)
    IN /\ meals' = r.table
       /\ last' = Call("delete_meal", r.err)
       /\ UNCHANGED combatants

get_meal_by_id(id) ==
    /\ last' = Call("get_meal_by_id", GetMealById(meals, id).err)
    /\ UNCHANGED <<meals, combatants>>

get_meal_by_name(name) ==
    /\ last' = Call("get_meal_by_name", GetMealByName(meals, name).err)
    /\ UNCHANGED <<meals, combatants>>

update_meal_stats(id, result) ==
    LET r == UpdateMealStats(meals, id, result)
    IN /\ TotalBattles(r.table) <= MaxBattles
       /\ meals' = r.table
       /\ last' = Call("update_meal_stats", r.err)
       /\ UNCHANGED combatants

get_leaderboard(sort_by) ==
    /\ last' = Call("get_leaderboard", GetLeaderboard(meals, sort_by).err)
    /\ UNCHANGED <<meals, combatants>>

prep_combatant(c) ==
    LET r == PrepCombatant(combatants, c)
    IN /\ Len(r.roster) <= MaxRoster
       /\ combatants' = r.roster
       /\ last' = Call("prep_combatant", r.err)
       /\ UNCHANGED meals

clear_combatants ==
    /\ combatants' = ClearCombatants(combatants)
    /\ last' = Call("clear_combatants", OK)
    /\ UNCHANGED meals

get_combatants ==
    /\ last' = Call("get_combatants", OK)
    /\ UNCHANGED <<meals, combatants>>

get_battle_score(c) ==
    /\ last' = Call("get_battle_score", GetBattleScore(c).err)
    /\ UNCHANGED <<meals, combatants>>

battle(r) ==
    LET b == Battle(meals, combatants, r)
    IN /\ TotalBattles(b.table) <= MaxBattles
       /\ meals' = b.table
       /\ combatants' = b.roster
       /\ last' = Call("battle", b.err)

Next ==
    \/ \E a \in CreateInputs : create_meal(a)
    \/ clear_meals
    \/ \E id \in LookupIds : delete_meal(id)
    \/ \E id \in LookupIds : get_meal_by_id(id)
    \/ \E name \in LookupNames : get_meal_by_name(name)
    \/ \E id \in LookupIds, result \in Results : update_meal_stats(id, result)
    \/ \E sort_by \in SortBys : get_leaderboard(sort_by)
    \/ \E c \in PrepInputs : prep_combatant(c)
    \/ clear_combatants
    \/ get_combatants
    \/ \E c \in PrepInputs : get_battle_score(c)
    \/ \E r \in RandomDraws : battle(r)

Spec == Init /\ [][Next]_vars

\* The Meal Store alone under arbitrary callers (the Battle Engine reaches the
\* table only through update_meal_stats), with a third meal.
NextKitchen ==
    \/ \E a \in KitchenInputs : create_meal(a)
    \/ clear_meals
    \/ \E id \in KitchenIds : delete_meal(id)
    \/ \E id \in KitchenIds : get_meal_by_id(id)
    \/ \E name \in KitchenNames : get_meal_by_name(name)
    \/ \E id \in KitchenIds, result \in Results : update_meal_stats(id, result)
    \/ \E sort_by \in SortBys : get_leaderboard(sort_by)

SpecKitchen == Init /\ [][NextKitchen]_vars

\* ------------------------------------------------------------------ helpers of the properties

\* The row of the table with this id (the table holds one).
RowOf(table, id) == SelectById(table, id)[1]

\* The table holds a row with this id.
HasRow(table, id) == SelectById(table, id) # <<>>

\* small is big with some entries left out, the order kept.
RECURSIVE IsSubSeq(_, _)
IsSubSeq(small, big) ==
    IF small = <<>> THEN TRUE
    ELSE IF big = <<>> THEN FALSE
    ELSE IF Head(small) = Head(big) THEN IsSubSeq(Tail(small), Tail(big))
    ELSE IsSubSeq(small, Tail(big))

\* No two entries of the list have the same meal id.
NoDuplicateIds(roster) ==
    \A i, j \in 1 .. Len(roster) : i # j => roster[i].id # roster[j].id

\* ------------------------------------------------------------------ C1

\* C1: a battle that succeeds on a list of two combatants leaves exactly the
\* winner in the list, whichever of the two the draw chose; in the table both
\* meals' battles counters are 1 higher, the winner's wins counter is 1 higher
\* and the loser's wins counter is as before.
C1_BattleOutcome ==
    [][(last'.op = "battle" /\ last'.err = OK) =>
        /\ Len(combatants) = 2
        /\ Len(combatants') = 1
        /\ combatants'[1] \in {combatants[1], combatants[2]}
        /\ LET winner == combatants'[1]
               loser == IF winner = combatants[1] THEN combatants[2] ELSE combatants[1]
           IN /\ RowOf(meals', winner.id).battles = RowOf(meals, winner.id).battles + 1
              /\ RowOf(meals', winner.id).wins = RowOf(meals, winner.id).wins + 1
              /\ RowOf(meals', loser.id).battles = RowOf(meals, loser.id).battles + 1
              /\ RowOf(meals', loser.id).wins = RowOf(meals, loser.id).wins
      ]_vars

\* A battle has succeeded and the meal with the lower score (Pasta, 68 against
\* Sushi's 119) is the one left in the list, with its win recorded.
C1_Witness ==
    /\ last = Call("battle", OK)
    /\ Len(combatants) = 1
    /\ combatants[1].meal = "Pasta"
    /\ \E i \in 1 .. Len(meals) :
          /\ meals[i].meal = "Sushi" /\ meals[i].battles = 1 /\ meals[i].wins = 0

\* ------------------------------------------------------------------ C2

\* C2 (as amended): a battle on a list of any length other than 2 (0, 1, 3 or
\* more) raises ValidationError and leaves the list and the table unchanged.
C2_NotEnoughCombatants ==
    [][(last'.op = "battle" /\ Len(combatants) # 2) =>
        /\ last'.err = ValidationError
        /\ meals' = meals
        /\ combatants' = combatants
      ]_vars

\* C2 as stated: the above, and every failed battle leaves the list and the
\* table unchanged.
C2_Original ==
    [][last'.op = "battle" =>
        /\ Len(combatants) # 2 => last'.err = ValidationError
        /\ last'.err # OK => (meals' = meals /\ combatants' = combatants)
      ]_vars

\* A battle was refused on a list of three combatants.
C2_Witness ==
    /\ last = Call("battle", ValidationError)
    /\ Len(combatants) = 3

\* ------------------------------------------------------------------ C7

\* C7: prep_combatant raises ValidationError for None and ConflictError for a
\* meal whose id is in the list, leaving the list as it was, and otherwise
\* appends the meal at the end; the list never holds two entries with one id,
\* and every step keeps the entries in the order they were added
\* (get_combatants returns the list as it is).
C7_Roster ==
    [][/\ \A c \in PrepInputs :
            (last'.op = "prep_combatant" /\ prep_combatant(c)) =>
                IF c = <<>>
                THEN last'.err = ValidationError /\ combatants' = combatants
                ELSE IF \E i \in 1 .. Len(combatants) : combatants[i].id = c[1].id
                THEN last'.err = ConflictError /\ combatants' = combatants
                ELSE /\ last'.err = OK
                     /\ Len(combatants') = Len(combatants) + 1
                     /\ combatants'[Len(combatants')] = c[1]
                     /\ SubSeq(combatants', 1, Len(combatants)) = combatants
       /\ NoDuplicateIds(combatants')
       /\ last'.op # "prep_combatant" => IsSubSeq(combatants', combatants)
       /\ GetCombatants(combatants') = combatants'
      ]_vars

\* A meal was refused because its id is already in the list, although the
\* entry in the list is another record (an older meal with that id).
C7_Witness ==
    /\ last = Call("prep_combatant", ConflictError)
    /\ Len(combatants) = 2
    /\ \E i \in 1 .. Len(combatants) :
          /\ HasRow(meals, combatants[i].id)
          /\ RowOf(meals, combatants[i].id).meal # combatants[i].meal

\* ------------------------------------------------------------------ C9

\* C9: the list of combatants holds at most 2 entries in every reachable state.
C9_AtMostTwo == Len(combatants) <= 2

\* ------------------------------------------------------------------ C10

\* C10: every row has 0 <= wins <= battles; and in a step that is not
\* clear_meals no row's battles or wins decreases and no deleted row becomes
\* undeleted.
C10_Counters ==
    [][/\ \A i \in 1 .. Len(meals') :
            0 <= meals'[i].wins /\ meals'[i].wins <= meals'[i].battles
       /\ last'.op # "clear_meals" =>
            /\ Len(meals') >= Len(meals)
            /\ \A i \in 1 .. Len(meals) :
                  /\ meals'[i].id = meals[i].id
                  /\ meals'[i].battles >= meals[i].battles
                  /\ meals'[i].wins >= meals[i].wins
                  /\ meals[i].deleted => meals'[i].deleted
      ]_vars

\* A row that has won its one battle was deleted and keeps its counters;
\* another row has lost its one battle.
C10_Witness ==
    /\ last.op = "delete_meal" /\ last.err = OK
    /\ \E i, j \in 1 .. Len(meals) :
          /\ meals[i].deleted /\ meals[i].wins = 1 /\ meals[i].battles = 1
          /\ ~meals[j].deleted /\ meals[j].wins = 0 /\ meals[j].battles = 1

\* ------------------------------------------------------------------ C3

\* C3 with `kind` the error the two reads raise for a deleted row: a delete
\* that succeeds marks the row deleted; and for every deleted row, a step
\* other than clear_meals keeps the row, deleted, get_meal_by_id of its id and
\* get_meal_by_name of its name raise `kind`, and delete_meal of its id
\* raises AlreadyDeletedError.
SoftDeleteLifecycle(kind) ==
    /\ \A id \in KitchenIds :
          (last'.op = "delete_meal" /\ last'.err = OK /\ delete_meal(id)) =>
              /\ HasRow(meals, id) /\ ~RowOf(meals, id).deleted
              /\ HasRow(meals', id) /\ RowOf(meals', id).deleted
    /\ \A i \in 1 .. Len(meals) :
          meals[i].deleted =>
              /\ last'.op # "clear_meals" =>
                    /\ Len(meals') >= i
                    /\ meals'[i].id = meals[i].id
                    /\ meals'[i].meal = meals[i].meal
                    /\ meals'[i].deleted
              /\ get_meal_by_id(meals[i].id) => last'.err = kind
              /\ get_meal_by_name(meals[i].meal) => last'.err = kind
              /\ delete_meal(meals[i].id) => last'.err = AlreadyDeletedError

\* C3 (as amended): after a successful delete, and until clear_meals, the row
\* stays in the table with deleted = true, get_meal_by_id and get_meal_by_name
\* fail with the "has been deleted" error (AlreadyDeletedError, not the
\* NotFoundError of an id that never existed), and delete_meal fails with
\* AlreadyDeletedError.
C3_SoftDelete == [][SoftDeleteLifecycle(AlreadyDeletedError)]_vars

\* C3 as stated: the two reads of a deleted meal fail with NotFoundError.
C3_Original == [][SoftDeleteLifecycle(NotFoundError)]_vars

\* A read of a deleted meal has failed with the "has been deleted" error while
\* another meal was created after the delete.
C3_Witness ==
    /\ last = Call("get_meal_by_name", AlreadyDeletedError)
    /\ Len(meals) = 2
    /\ meals[1].deleted
    /\ ~meals[2].deleted

\* ------------------------------------------------------------------ C4

\* C4: update_meal_stats succeeds exactly on an existing, non-deleted meal
\* with result win or loss; it then adds 1 to that row's battles, adds 1 to
\* its wins iff the result is win, and changes nothing else; when it fails
\* the table is unchanged.
C4_UpdateStats ==
    [][last'.op = "update_meal_stats" =>
        \A id \in KitchenIds, result \in Results :
            update_meal_stats(id, result) =>
                LET good == /\ HasRow(meals, id)
                            /\ ~RowOf(meals, id).deleted
                            /\ result \in {"win", "loss"}
                IN /\ (last'.err = OK) <=> good
                   /\ ~good => meals' = meals
                   /\ good =>
                        /\ Len(meals') = Len(meals)
                        /\ \A i \in 1 .. Len(meals) :
                              IF meals[i].id = id
                              THEN /\ meals'[i].battles = meals[i].battles + 1
                                   /\ meals'[i].wins =
                                        meals[i].wins + (IF result = "win" THEN 1 ELSE 0)
                                   /\ RowToMeal(meals'[i]) = RowToMeal(meals[i])
                                   /\ meals'[i].deleted = meals[i].deleted
                              ELSE meals'[i] = meals[i]
      ]_vars

\* An update has succeeded on a table where one row has won once, one has
\* lost once and a third is untouched.
C4_Witness ==
    /\ last = Call("update_meal_stats", OK)
    /\ Len(meals) = 3
    /\ \E i, j, k \in 1 .. 3 :
          /\ meals[i].battles = 1 /\ meals[i].wins = 1
          /\ meals[j].battles = 1 /\ meals[j].wins = 0
          /\ meals[k].battles = 0

\* ------------------------------------------------------------------ C5

\* C5 with InUse(table, name) the condition of the conflict: create_meal with
\* a valid price and difficulty raises ConflictError exactly when InUse, and
\* succeeds otherwise; no two non-deleted rows share a name.
NameConflict(InUse(_, _)) ==
    /\ last'.op = "create_meal" =>
          \A a \in KitchenInputs :
              (create_meal(a) /\ a.price > 0 /\ a.difficulty \in Difficulties) =>
                  /\ (last'.err = ConflictError) <=> InUse(meals, a.meal)
                  /\ (last'.err = OK) <=> ~InUse(meals, a.meal)
    /\ \A i, j \in 1 .. Len(meals') :
          (i # j /\ ~meals'[i].deleted /\ ~meals'[j].deleted) =>
              meals'[i].meal # meals'[j].meal

\* Some row, deleted or not, has the name.
NameInTable(table, name) == \E i \in 1 .. Len(table) : table[i].meal = name

\* Some non-deleted row has the name.
NameInActiveRow(table, name) ==
    \E i \in 1 .. Len(table) : table[i].meal = name /\ ~table[i].deleted

\* C5 (as amended): create_meal with a valid price and difficulty fails with
\* ConflictError exactly when some row of the table, deleted or not, has the
\* name (a soft-deleted meal keeps its name taken); no two rows, hence no two
\* non-deleted meals, share a name.
C5_NameConflict ==
    [][/\ NameConflict(NameInTable)
       /\ \A i, j \in 1 .. Len(meals') : i # j => meals'[i].meal # meals'[j].meal
      ]_vars

\* C5 as stated: the conflict arises exactly when a non-deleted meal has the
\* name, so that the name of a soft-deleted meal can be created again.
C5_Original == [][NameConflict(NameInActiveRow)]_vars

\* create_meal was refused for a name that only a deleted row holds.
C5_Witness ==
    /\ last = Call("create_meal", ConflictError)
    /\ Len(meals) = 1
    /\ meals[1].deleted

\* ------------------------------------------------------------------ C6

\* C6: create_meal with a valid price and difficulty and a name no row holds
\* succeeds, and get_meal_by_id of the new id and get_meal_by_name of the name
\* then both return the Meal with that id and exactly the given name, cuisine,
\* price and difficulty; the new row has battles = 0, wins = 0 and
\* deleted = false, and no other row has its id.
C6_CreateReadRoundTrip ==
    [][last'.op = "create_meal" =>
        \A a \in KitchenInputs :
            (/\ create_meal(a)
             /\ a.price > 0
             /\ a.difficulty \in Difficulties
             /\ ~NameInTable(meals, a.meal)) =>
                LET id == CreateMeal(meals, a).id
                    expected == [id |-> id, meal |-> a.meal, cuisine |-> a.cuisine,
                                 price |-> a.price, difficulty |-> a.difficulty]
                IN /\ last'.err = OK
                   /\ GetMealById(meals', id) = [err |-> OK, out |-> <<expected>>]
                   /\ GetMealByName(meals', a.meal) = [err |-> OK, out |-> <<expected>>]
                   /\ Cardinality({i \in 1 .. Len(meals') : meals'[i].id = id}) = 1
                   /\ \A i \in 1 .. Len(meals') :
                         meals'[i].id = id =>
                             /\ meals'[i].battles = 0
                             /\ meals'[i].wins = 0
                             /\ meals'[i].deleted = FALSE
                   /\ \A i \in 1 .. Len(meals) : meals'[i] = meals[i]
      ]_vars

\* A third meal was created after the first was deleted and the second had
\* fought.
C6_Witness ==
    /\ last = Call("create_meal", OK)
    /\ Len(meals) = 3
    /\ meals[1].deleted
    /\ meals[2].battles > 0
    /\ meals[3].meal = "Manti"

\* ------------------------------------------------------------------ C8

\* a's win percentage (0 without battles) is at least b's, compared exactly.
PctAtLeast(a, b) ==
    LET an == IF a.battles = 0 THEN 0 ELSE a.wins
        ad == IF a.battles = 0 THEN 1 ELSE a.battles
        bn == IF b.battles = 0 THEN 0 ELSE b.wins
        bd == IF b.battles = 0 THEN 1 ELSE b.battles
    IN an * bd >= bn * ad

\* C8: get_leaderboard with sort_by wins or win_pct returns exactly the
\* non-deleted meals, each once, those without battles included with
\* win_pct 0, ordered so that the requested field does not increase; any
\* other sort_by raises ValidationError; the table is unchanged.
C8_Leaderboard ==
    [][last'.op = "get_leaderboard" =>
        /\ meals' = meals
        /\ \A sort_by \in SortBys :
              get_leaderboard(sort_by) =>
                  LET board == GetLeaderboard(meals, sort_by).out
                      active == {i \in 1 .. Len(meals) : ~meals[i].deleted}
                  IN IF sort_by \notin {"wins", "win_pct"}
                     THEN last'.err = ValidationError
                     ELSE /\ last'.err = OK
                          /\ Len(board) = Cardinality(active)
                          /\ \A k \in 1 .. Len(board) :
                                \E i \in active :
                                    /\ board[k].id = meals[i].id
                                    /\ board[k].meal = meals[i].meal
                                    /\ board[k].battles = meals[i].battles
                                    /\ board[k].wins = meals[i].wins
                          /\ \A i \in active :
                                \E k \in 1 .. Len(board) : board[k].id = meals[i].id
                          /\ \A k \in 1 .. Len(board) :
                                board[k].battles = 0 => board[k].win_pct = 0
                          /\ \A k \in 1 .. Len(board) - 1 :
                                IF sort_by = "wins"
                                THEN board[k].wins >= board[k + 1].wins
                                ELSE /\ PctAtLeast(board[k], board[k + 1])
                                     /\ board[k].win_pct >= board[k + 1].win_pct
      ]_vars

\* A leaderboard was returned for a table whose first row is deleted, whose
\* second row has no battle and whose third row has won: the third row comes
\* first and the deleted row is left out.
C8_Witness ==
    /\ last = Call("get_leaderboard", OK)
    /\ Len(meals) = 3
    /\ meals[1].deleted
    /\ ~meals[2].deleted /\ meals[2].battles = 0
    /\ ~meals[3].deleted /\ meals[3].wins = 1
    /\ LET board == GetLeaderboard(meals, "win_pct").out
       IN Len(board) = 2 /\ board[1].id = 3 /\ board[2].id = 2

====
